---- MODULE Spec2Model ----
(***************************************************************************)
(* Drumlog (src/app.py): the practice-log store (the CSV data file, its    *)
(* backup, the save form, the CSV import, the load-and-validate block and  *)
(* the recent-exercises lookup) and the practice timer.                    *)
(*                                                                         *)
(* app.py is a Streamlit script: every interaction runs the script from    *)
(* top to bottom once, synchronously.  In script order a run executes the  *)
(* timer buttons (203-263), get_recent_exercises_with_bpm (311), the save  *)
(* block (368-412), the load block (415-440) and the import block          *)
(* (511-545).  Each of these blocks is one atomic step of the model; a run *)
(* in which several of them act is the sequence of their steps.            *)
(*                                                                         *)
(* Text is a sequence of one-character strings.  A table cell is a tagged  *)
(* record: a number, a text, an ISO date (by its day number) or NaN, the   *)
(* way pandas holds an empty CSV field.                                    *)
(***************************************************************************)
EXTENDS Integers, Sequences, FiniteSets, TLC

VARIABLES
    dataFile,          \* contents of DATA_FILE ('practice_log.csv')
    backupFile,        \* contents of DATA_FILE + '.backup'
    message,           \* the st.success / st.error / st.warning of the last step
    info,              \* the last_bpm of the st.info of the last save: <<>> or <<bpm>>
    submitted,         \* the form values of the last save step: <<>> or <<c>>
    uploaded_file,     \* the upload of the last import step: <<>> or <<name>>
    prevData,          \* dataFile before the last step
    prevBackup,        \* backupFile before the last step
    timer_running,     \* st.session_state.timer_running
    timer_start_time,  \* st.session_state.timer_start_time: <<>> (None) or <<t>>
    timer_elapsed,     \* st.session_state.timer_elapsed, in seconds
    timer_minutes,     \* st.session_state.timer_minutes: <<>> (unset) or <<m>>
    now,               \* time.time() as read by the last timer step
    timer_op           \* the timer button of the last timer step

storeVars == <<dataFile, backupFile, message, info, submitted, uploaded_file,
               prevData, prevBackup>>
timerVars == <<timer_running, timer_start_time, timer_elapsed, timer_minutes,
               now, timer_op>>
vars == <<storeVars, timerVars>>

(***************************************************************************)
(* Program constants.                                                      *)
(***************************************************************************)
MAX_FILE_SIZE == 10 * 1024 * 1024
MaxImportRows == 10000
MaxExerciseLen == 100
MaxNotesLen == 500
ImportTextLen == 100
MinMinutes == 1
MaxMinutes == 600
MinBPM == 20
MaxBPM == 400
DefaultBPM == 60
RecentLimit == 10

required_columns == {"Date", "Exercise/Song", "Minutes", "BPM", "Notes"}

(***************************************************************************)
(* Bounds of the model.                                                    *)
(***************************************************************************)
MaxRows == 2           \* the save form is not submitted on a log this long

(***************************************************************************)
(* Text.                                                                   *)
(***************************************************************************)
Rep(c, n) == [i \in 1..n |-> c]

RECURSIVE lstrip(_)
lstrip(s) ==
    IF s /= <<>> /\ Head(s) = " " THEN lstrip(Tail(s)) ELSE s

RECURSIVE rstrip(_)
rstrip(s) ==
    IF s /= <<>> /\ s[Len(s)] = " "
    THEN rstrip(SubSeq(s, 1, Len(s) - 1))
    ELSE s

\* str.strip(): without its leading and trailing whitespace
strip(s) == rstrip(lstrip(s))

\* s[:n]
Slice(s, n) == IF Len(s) <= n THEN s ELSE SubSeq(s, 1, n)

DigitChar == <<"0", "1", "2", "3", "4", "5", "6", "7", "8", "9">>

RECURSIVE Decimal(_)
Decimal(n) ==
    IF n < 0 THEN <<"-">> \o Decimal(0 - n)
    ELSE IF n < 10 THEN <<DigitChar[n + 1]>>
    ELSE Decimal(n \div 10) \o <<DigitChar[(n % 10) + 1]>>

(***************************************************************************)
(* Cells.                                                                  *)
(***************************************************************************)
NaN == [k |-> "nan", n |-> 0, s |-> <<>>]
Num(n) == [k |-> "num", n |-> n, s |-> <<>>]
Txt(s) == [k |-> "str", n |-> 0, s |-> s]
Day(d) == [k |-> "date", n |-> d, s |-> <<>>]

notna(c) == c.k /= "nan"

\* A text as to_csv writes it and read_csv reads it back: the empty string
\* is an empty field, which is NaN.
CsvText(s) == IF s = <<>> THEN NaN ELSE Txt(s)

\* Series.astype(str) on one cell
astype_str(c) ==
    CASE c.k = "nan" -> <<"n", "a", "n">>
      [] c.k = "str" -> c.s
      [] c.k = "num" -> Decimal(c.n)
      [] OTHER -> <<"d">> \o Decimal(c.n)

\* pd.to_numeric(errors='coerce') on one cell
to_numeric(c) == IF c.k = "num" THEN c ELSE NaN

\* pd.to_datetime(errors='coerce') on one cell of the Date column
to_datetime(c) == IF c.k = "date" THEN c ELSE NaN

(***************************************************************************)
(* Files and tables.  A table is its set of columns and its rows, each row *)
(* a function from the columns to cells.                                   *)
(***************************************************************************)
NoFile == [kind |-> "missing", cols |-> {}, rows |-> <<>>]
Garbage == [kind |-> "garbage", cols |-> {}, rows |-> <<>>]
CsvFile(cols, rows) == [kind |-> "csv", cols |-> cols, rows |-> rows]

EmptyFrame == [cols |-> {}, rows |-> <<>>]

empty(df) == df.cols = {} \/ df.rows = <<>>

\* read_csv reads an empty field, and a field that spells nan, as NaN
ReadCell(c) == IF c.k = "str" /\ c.s = <<"n", "a", "n">> THEN NaN ELSE c

pd_read_csv(file) ==
    [cols |-> file.cols,
     rows |-> [i \in 1..Len(file.rows) |->
                 [c \in file.cols |-> ReadCell(file.rows[i][c])]]]

safe_read_csv(file) ==
    IF file.kind = "csv" THEN pd_read_csv(file) ELSE EmptyFrame

\* a backup that is written once and never overwritten
create_backup_once(file, backup) ==
    IF file.kind /= "missing" /\ backup.kind = "missing" THEN file ELSE backup

\* the backup file after create_backup(DATA_FILE)
create_backup(file, backup) ==
    IF file.kind /= "missing" THEN file ELSE backup

\* a row widened to the columns cols, NaN where it has no value
Reindex(row, cols) ==
    [c \in cols |-> IF c \in DOMAIN row THEN row[c] ELSE NaN]

\* pd.concat([df, new_entry], ignore_index=True)
concat(df, new_entry) ==
    LET cols == df.cols \cup new_entry.cols
    IN  [cols |-> cols,
         rows |-> [i \in 1..Len(df.rows) |-> Reindex(df.rows[i], cols)]
                  \o [i \in 1..Len(new_entry.rows) |->
                         Reindex(new_entry.rows[i], cols)]]

\* DataFrame.to_csv(DATA_FILE, index=False)
to_csv(df) == CsvFile(df.cols, df.rows)

Row(d, e, m, b, n) ==
    [c \in required_columns |->
        CASE c = "Date" -> d
          [] c = "Exercise/Song" -> e
          [] c = "Minutes" -> m
          [] c = "BPM" -> b
          [] OTHER -> n]

(***************************************************************************)
(* The save form.                                                          *)
(***************************************************************************)
BaseEntry ==
    [datum |-> 2, uebung |-> <<"b">>, minuten |-> MinMinutes,
     bpm |-> MinBPM, notizen |-> <<>>]

\* submissions the save block stores
ValidCandidates ==
    {BaseEntry,
     [BaseEntry EXCEPT !.bpm = MaxBPM],
     [BaseEntry EXCEPT !.uebung = <<" ", "a", " ">>, !.datum = 1,
                       !.notizen = <<" ", "n", " ">>],
     [BaseEntry EXCEPT !.uebung = Rep("a", MaxExerciseLen + 1),
                       !.minuten = MaxMinutes,
                       !.notizen = Rep("n", MaxNotesLen + 1)]}

\* submissions outside the ranges of the form
InvalidCandidates ==
    {[BaseEntry EXCEPT !.uebung = <<>>],
     [BaseEntry EXCEPT !.uebung = <<" ", " ">>],
     [BaseEntry EXCEPT !.minuten = MinMinutes - 1],
     [BaseEntry EXCEPT !.minuten = MaxMinutes + 1],
     [BaseEntry EXCEPT !.bpm = MinBPM - 1],
     [BaseEntry EXCEPT !.bpm = MaxBPM + 1],
     [BaseEntry EXCEPT !.uebung = <<" ">>, !.minuten = MinMinutes - 1],
     [BaseEntry EXCEPT !.minuten = MinMinutes - 1, !.bpm = MaxBPM + 1]}

Candidates == ValidCandidates \cup InvalidCandidates

\* the submissions the widgets of the form deliver: the number inputs hold
\* their value within min_value and max_value (lines 360, 363)
FormCandidates ==
    {c \in Candidates :
        /\ MinMinutes <= c.minuten /\ c.minuten <= MaxMinutes
        /\ MinBPM <= c.bpm /\ c.bpm <= MaxBPM}

sanitized_uebung(uebung) == Slice(strip(uebung), MaxExerciseLen)

\* the notes cut but not stripped
sanitized_notizen_unstripped(notizen) ==
    IF notizen /= <<>> THEN Slice(notizen, MaxNotesLen) ELSE <<>>

sanitized_notizen(notizen) ==
    IF notizen /= <<>> THEN Slice(strip(notizen), MaxNotesLen) ELSE <<>>

new_entry(c) ==
    [cols |-> required_columns,
     rows |-> <<Row(Day(c.datum), CsvText(sanitized_uebung(c.uebung)),
                    Num(c.minuten), Num(c.bpm),
                    CsvText(sanitized_notizen(c.notizen)))>>]

\* the exercise tested without stripping it
HasExerciseUnstripped(c) == c.uebung /= <<>>

\* line 368: the form was submitted with a non-blank exercise
HasExercise(c) == strip(c.uebung) /= <<>>

\* line 375
InvalidMinutes(c) == c.minuten < MinMinutes

\* line 377
InvalidBPM(c) == c.bpm < MinBPM \/ c.bpm > MaxBPM

\* line 387: whether the song is among df['Exercise/Song'].dropna().unique()
SongExists(df, song) ==
    /\ ~empty(df)
    /\ \E i \in 1..Len(df.rows) :
          notna(df.rows[i]["Exercise/Song"]) /\ df.rows[i]["Exercise/Song"] = song

\* lines 390-392: song_entries.iloc[-1]['BPM']
last_bpm(df, song) ==
    LET song_entries == SelectSeq(df.rows, LAMBDA r : r["Exercise/Song"] = song)
    IN  song_entries[Len(song_entries)]["BPM"]

\* lines 387-392: df['Exercise/Song'], and ['BPM'] for a known song, raise
\* KeyError when the column is absent
SaveRaises(df, song) ==
    /\ ~empty(df)
    /\ \/ "Exercise/Song" \notin df.cols
       \/ SongExists(df, song) /\ "BPM" \notin df.cols

\* lines 388-394: the BPM the notice names as the song's previous one
BpmNotice(df, c) ==
    LET song == CsvText(sanitized_uebung(c.uebung))
    IN  IF SongExists(df, song) /\ last_bpm(df, song) /= Num(c.bpm)
        THEN <<last_bpm(df, song)>>
        ELSE <<>>

Save(c) ==
    /\ Len(dataFile.rows) < MaxRows
    /\ submitted' = <<c>>
    /\ uploaded_file' = <<>>
    /\ prevData' = dataFile
    /\ prevBackup' = backupFile
    /\ IF ~HasExercise(c)
       THEN /\ message' = "warning_no_exercise"
            /\ info' = <<>>
            /\ UNCHANGED <<dataFile, backupFile>>
       ELSE IF InvalidMinutes(c)
       THEN /\ message' = "error_invalid_minutes"
            /\ info' = <<>>
            /\ UNCHANGED <<dataFile, backupFile>>
       ELSE IF InvalidBPM(c)
       THEN /\ message' = "error_invalid_bpm"
            /\ info' = <<>>
            /\ UNCHANGED <<dataFile, backupFile>>
       ELSE /\ backupFile' = create_backup(dataFile, backupFile)
            /\ LET df == safe_read_csv(dataFile)
               IN  IF SaveRaises(df, CsvText(sanitized_uebung(c.uebung)))
                   THEN /\ message' = "error_saving"
                        /\ info' = <<>>
                        /\ UNCHANGED dataFile
                   ELSE /\ info' = BpmNotice(df, c)
                        /\ dataFile' = to_csv(concat(df, new_entry(c)))
                        /\ message' = "saved"
    /\ UNCHANGED timerVars

(***************************************************************************)
(* The import.  An upload is the file handed over by st.file_uploader: its *)
(* size in bytes, whether its name ends in .csv, whether pd.read_csv       *)
(* parses it, and the table read_csv returns.                              *)
(***************************************************************************)
Upload(cols, rows) ==
    [size |-> 1024, name_csv |-> TRUE, parses |-> TRUE,
     cols |-> cols, rows |-> rows]

ta == Txt(<<"a">>)
tb == Txt(<<"b">>)
tn == Txt(<<"n">>)
tx == Txt(<<"x">>)

\* in date order, every field filled
UpClean ==
    Upload(required_columns,
           <<Row(Day(1), ta, Num(30), Num(60), tn),
             Row(Day(2), tb, Num(45), Num(90), Txt(<<"n", "n">>))>>)

\* not in date order; empty Notes; Notes of 101 characters
UpNotes ==
    Upload(required_columns,
           <<Row(Day(2), ta, Num(30), Num(80), NaN),
             Row(Day(1), ta, Num(40), Num(60),
                 Txt(Rep("n", ImportTextLen + 1)))>>)

\* values outside the form's ranges; no exercise name
UpRange ==
    Upload(required_columns,
           <<Row(Day(1), ta, Num(MinMinutes - 1), Num(MaxBPM + 1), tn),
             Row(Day(2), NaN, Num(30), Num(60), tn)>>)

\* a row in which Date, Minutes and BPM all fail to coerce, rows in which
\* one of them does
UpCoerce ==
    Upload(required_columns,
           <<Row(tx, ta, tx, tx, tn),
             Row(Day(2), tb, tx, Num(70), tn),
             Row(tx, tb, Num(20), NaN, tn)>>)

UpExtra ==
    Upload(required_columns \cup {"Mood"},
           <<Row(Day(1), ta, Num(30), Num(60), tn) @@ ("Mood" :> tx)>>)

UpNoBPM ==
    Upload(required_columns \ {"BPM"},
           <<[c \in required_columns \ {"BPM"} |->
                Row(Day(1), ta, Num(30), Num(60), tn)[c]]>>)

UpHeaderOnly == Upload(required_columns, <<>>)

UpManyRows ==
    Upload(required_columns,
           Rep(Row(Day(1), ta, Num(30), Num(60), tn), MaxImportRows + 1))

UpTooLarge == [UpClean EXCEPT !.size = MAX_FILE_SIZE + 1]

UpNotCsv == [UpClean EXCEPT !.name_csv = FALSE]

UpUnparseable == [Upload({}, <<>>) EXCEPT !.parses = FALSE]

UploadNames ==
    {"clean", "notes", "range", "coerce", "extra", "no_bpm", "header_only",
     "many_rows", "too_large", "not_csv", "unparseable"}

UploadOf(name) ==
    CASE name = "clean" -> UpClean
      [] name = "notes" -> UpNotes
      [] name = "range" -> UpRange
      [] name = "coerce" -> UpCoerce
      [] name = "extra" -> UpExtra
      [] name = "no_bpm" -> UpNoBPM
      [] name = "header_only" -> UpHeaderOnly
      [] name = "many_rows" -> UpManyRows
      [] name = "too_large" -> UpTooLarge
      [] name = "not_csv" -> UpNotCsv
      [] OTHER -> UpUnparseable

validate_csv_file(u) ==
    IF u.size > MAX_FILE_SIZE THEN "error_file_too_large"
    ELSE IF ~u.name_csv THEN "error_not_csv"
    ELSE "valid"

\* the test passing on any one required column
HasSomeRequiredColumn(df) == \E col \in required_columns : col \in df.cols

\* line 528
HasRequiredColumns(df) == \A col \in required_columns : col \in df.cols

\* lines 532-534: Exercise/Song and Notes as strings, cut to 100 characters
SanitizeCell(c) == CsvText(Slice(astype_str(c), ImportTextLen))

Sanitize(df) ==
    [cols |-> df.cols,
     rows |-> [i \in 1..Len(df.rows) |->
                 [c \in df.cols |->
                    IF c \in {"Exercise/Song", "Notes"}
                    THEN SanitizeCell(df.rows[i][c])
                    ELSE df.rows[i][c]]]]

Import(name) ==
    LET u == UploadOf(name) IN
    /\ submitted' = <<>>
    /\ info' = <<>>
    /\ uploaded_file' = <<name>>
    /\ prevData' = dataFile
    /\ prevBackup' = backupFile
    /\ IF validate_csv_file(u) /= "valid"
       THEN /\ message' = validate_csv_file(u)
            /\ UNCHANGED <<dataFile, backupFile>>
       ELSE IF ~u.parses
       THEN /\ message' = "error_uploading"
            /\ UNCHANGED <<dataFile, backupFile>>
       ELSE LET uploaded_df == [cols |-> u.cols, rows |-> u.rows]
            IN  IF Len(uploaded_df.rows) > MaxImportRows
                THEN /\ message' = "error_too_many_rows"
                     /\ UNCHANGED <<dataFile, backupFile>>
                ELSE IF ~HasRequiredColumns(uploaded_df)
                THEN /\ message' = "error_bad_columns"
                     /\ UNCHANGED <<dataFile, backupFile>>
                ELSE /\ backupFile' = create_backup(dataFile, backupFile)
                     /\ dataFile' = to_csv(Sanitize(uploaded_df))
                     /\ message' = "imported"
    /\ UNCHANGED timerVars

(***************************************************************************)
(* The load block (415-440).                                               *)
(***************************************************************************)
critical_columns == {"Date", "Minutes", "BPM"}

\* lines 426-428
Coerce(row) ==
    [c \in DOMAIN row |->
        CASE c \in {"Minutes", "BPM"} -> to_numeric(row[c])
          [] c = "Date" -> to_datetime(row[c])
          [] OTHER -> row[c]]

\* the rows dropna(subset=subset, how='any') keeps
dropna_any(rows, subset) ==
    SelectSeq(rows, LAMBDA r : \A c \in subset : notna(r[c]))

\* the rows DataFrame.dropna(subset=subset, how='all') keeps
dropna_all(rows, subset) ==
    SelectSeq(rows, LAMBDA r : \E c \in subset : notna(r[c]))

\* what the load block hands to the metrics, the table and the charts
load(file) ==
    LET df == safe_read_csv(file)
    IN  IF empty(df)
        THEN [status |-> "no_entries", rows |-> <<>>]
        ELSE IF ~HasRequiredColumns(df)
        THEN [status |-> "bad_format", rows |-> <<>>]
        ELSE LET coerced == [i \in 1..Len(df.rows) |-> Coerce(df.rows[i])]
                 kept == dropna_all(coerced, critical_columns)
             IN  IF kept = <<>>
                 THEN [status |-> "no_valid_data", rows |-> <<>>]
                 ELSE [status |-> "loaded", rows |-> kept]

(***************************************************************************)
(* get_recent_exercises_with_bpm (117-140).  The Date column is compared   *)
(* as read_csv returns it, as text: ISO dates order by day, any other text *)
(* of the model orders after every date, NaN goes last.  sort_values uses  *)
(* its default, unstable sort, so among rows of equal Date any may come    *)
(* first.                                                                  *)
(***************************************************************************)
DateBefore(c, d) ==
    \/ c.k = "date" /\ d.k = "date" /\ c.n < d.n
    \/ c.k = "date" /\ d.k = "str"

\* the rows that sort_values('Date', ascending=False) may put first
LatestEntries(song_entries) ==
    LET dated == {i \in 1..Len(song_entries) : notna(song_entries[i]["Date"])}
        top == {i \in dated :
                  \A j \in dated :
                     ~DateBefore(song_entries[i]["Date"], song_entries[j]["Date"])}
    IN  IF dated = {} THEN 1..Len(song_entries) ELSE top

\* whether the function reaches its loop: the file is a non-empty CSV with
\* the columns the loop reads
RecentReads(file) ==
    /\ file.kind = "csv"
    /\ ~empty(pd_read_csv(file))
    /\ {"Exercise/Song", "BPM", "Date"} \subseteq file.cols

\* df['Exercise/Song'].dropna().unique()
UniqueSongs(df) ==
    LET named == SelectSeq(df.rows, LAMBDA r : notna(r["Exercise/Song"]))
        first == {i \in 1..Len(named) :
                    \A j \in 1..(i - 1) :
                       named[j]["Exercise/Song"] /= named[i]["Exercise/Song"]}
        Nth(k) == CHOOSE i \in first : Cardinality({j \in first : j <= i}) = k
    IN  [k \in 1..Cardinality(first) |-> named[Nth(k)]["Exercise/Song"]]

\* the songs of recent_data[-10:]
RecentSongs(file) ==
    IF ~RecentReads(file) THEN <<>>
    ELSE LET songs == UniqueSongs(pd_read_csv(file))
         IN  IF Len(songs) <= RecentLimit THEN songs
             ELSE SubSeq(songs, Len(songs) - RecentLimit + 1, Len(songs))

\* the values the entry of song in recent_data can carry as 'bpm'
RecentBPMs(file, song) ==
    LET df == pd_read_csv(file)
        song_entries == SelectSeq(df.rows, LAMBDA r : r["Exercise/Song"] = song)
    IN  {IF notna(song_entries[i]["BPM"]) THEN song_entries[i]["BPM"]
         ELSE Num(DefaultBPM) : i \in LatestEntries(song_entries)}

(***************************************************************************)
(* The practice timer (203-263).  Each button press is one script run; the *)
(* press reads time.time() as t.  The clock is not assumed to move         *)
(* forward.                                                                *)
(***************************************************************************)
ClockValues == {0, 20, 90, 150, 36090}

Max(a, b) == IF a >= b THEN a ELSE b

\* to the nearest minute, a half always up
RoundHalfUp60(seconds) == (seconds + 30) \div 60

\* round(seconds / 60): to the nearest minute, a half to the even minute
PyRound60(seconds) ==
    LET q == seconds \div 60
        r == seconds % 60
    IN  IF r * 2 < 60 THEN q
        ELSE IF r * 2 > 60 THEN q + 1
        ELSE IF q % 2 = 0 THEN q ELSE q + 1

round_to_minutes(seconds) == Max(1, PyRound60(seconds))

DefaultMinutes == 30

\* lines 356-359: the value the form gives its Minutes input, from
\* st.session_state.get('timer_minutes', 30)
default_minutes(minutes) ==
    LET given == IF minutes = <<>> THEN DefaultMinutes ELSE minutes[1]
    IN  IF given < 1 THEN DefaultMinutes ELSE given

\* the difference without the clamp
StopElapsedUnclamped(t, start) == t - start

\* line 243
StopElapsed(t, start) == Max(0, t - start)

\* a start that keeps the elapsed time of the run before
StartKeepingElapsed(t) ==
    /\ ~timer_running
    /\ timer_running' = TRUE
    /\ timer_start_time' = <<t>>
    /\ now' = t
    /\ timer_op' = "start"
    /\ UNCHANGED <<timer_elapsed, timer_minutes, storeVars>>

Start(t) ==
    /\ ~timer_running
    /\ timer_running' = TRUE
    /\ timer_start_time' = <<t>>
    /\ timer_elapsed' = 0
    /\ now' = t
    /\ timer_op' = "start"
    /\ UNCHANGED <<timer_minutes, storeVars>>

Stop(t) ==
    /\ timer_running
    /\ timer_running' = FALSE
    /\ timer_elapsed' = StopElapsed(t, timer_start_time[1])
    /\ now' = t
    /\ timer_op' = "stop"
    /\ UNCHANGED <<timer_start_time, timer_minutes, storeVars>>

\* the Reset button of either branch (220-224, 248-252)
Reset ==
    /\ timer_running' = FALSE
    /\ timer_start_time' = <<>>
    /\ timer_elapsed' = 0
    /\ timer_op' = "reset"
    /\ UNCHANGED <<timer_minutes, now, storeVars>>

\* the Use button of either branch (227-232, 255-260)
Use ==
    /\ IF timer_elapsed > 0
       THEN /\ timer_minutes' = <<round_to_minutes(timer_elapsed)>>
            /\ timer_op' = "use"
       ELSE /\ timer_op' = "use_warning"
            /\ UNCHANGED timer_minutes
    /\ UNCHANGED <<timer_running, timer_start_time, timer_elapsed, now,
                   storeVars>>

(***************************************************************************)
(* Initial states: no backup yet; the data file is missing, is not a       *)
(* parseable CSV, or is a log written with another revision's headers.     *)
(***************************************************************************)
LegacyFile ==
    CsvFile({"Datum", "Minuten", "BPM"},
            <<[c \in {"Datum", "Minuten", "BPM"} |->
                 CASE c = "Datum" -> Day(1) [] c = "Minuten" -> Num(30)
                   [] OTHER -> Num(60)]>>)

InitFiles == {NoFile, Garbage, LegacyFile}

Init ==
    /\ dataFile \in InitFiles
    /\ backupFile = NoFile
    /\ message = "none"
    /\ info = <<>>
    /\ submitted = <<>>
    /\ uploaded_file = <<>>
    /\ prevData = dataFile
    /\ prevBackup = backupFile
    /\ timer_running = FALSE
    /\ timer_start_time = <<>>
    /\ timer_elapsed = 0
    /\ timer_minutes = <<>>
    /\ now = 0
    /\ timer_op = "none"

\* The save block is handed any values: its own checks (375-378) decide.
Next ==
    \/ \E c \in Candidates : Save(c)
    \/ \E name \in UploadNames : Import(name)

Spec == Init /\ [][Next]_vars

\* The save block is handed only what the form's widgets deliver.
FormNext ==
    \/ \E c \in FormCandidates : Save(c)
    \/ \E name \in UploadNames : Import(name)

FormSpec == Init /\ [][FormNext]_vars

TimerNext ==
    \/ \E t \in ClockValues : Start(t)
    \/ \E t \in ClockValues : Stop(t)
    \/ Reset
    \/ Use

TimerSpec == Init /\ [][TimerNext]_vars

(***************************************************************************)
(* Vocabulary of the properties.                                           *)
(***************************************************************************)
Mutated == message \in {"saved", "imported"}

SaveRejections ==
    {"warning_no_exercise", "error_invalid_minutes", "error_invalid_bpm"}

ImportRejections ==
    {"error_file_too_large", "error_not_csv", "error_uploading",
     "error_too_many_rows", "error_bad_columns"}

FilesUntouched == dataFile = prevData /\ backupFile = prevBackup

IsBlank(s) == \A i \in 1..Len(s) : s[i] = " "

\* s without the spaces before its first and after its last other character
Trimmed(s) ==
    LET solid == {i \in 1..Len(s) : s[i] /= " "}
        lo == CHOOSE i \in solid : \A j \in solid : i <= j
        hi == CHOOSE i \in solid : \A j \in solid : j <= i
    IN  IF solid = {} THEN <<>> ELSE [i \in 1..(hi - lo + 1) |-> s[lo + i - 1]]

CutTo(s, n) == [i \in 1..(IF Len(s) < n THEN Len(s) ELSE n) |-> s[i]]

InRange(x, lo, hi) == lo <= x /\ x <= hi

\* a candidate the data model accepts
ValidEntry(c) ==
    /\ ~IsBlank(c.uebung)
    /\ InRange(c.minuten, MinMinutes, MaxMinutes)
    /\ InRange(c.bpm, MinBPM, MaxBPM)

\* a row restricted to the five columns of the schema
Five(row) == [c \in required_columns |-> row[c]]

FiveOf(rows) == [i \in 1..Len(rows) |-> Five(rows[i])]

TextCell(s) == IF Len(s) = 0 THEN NaN ELSE Txt(s)

SavedValid ==
    /\ message = "saved"
    /\ submitted /= <<>>
    /\ ValidEntry(submitted[1])

AppendsOneRow(expected) ==
    LET before == load(prevData).rows
        after == load(dataFile).rows
    IN  /\ Len(after) = Len(before) + 1
        /\ SubSeq(after, 1, Len(before)) = before
        /\ Five(after[Len(after)]) = expected

EntryAsClaimed(c) ==
    Row(Day(c.datum), TextCell(CutTo(Trimmed(c.uebung), MaxExerciseLen)),
        Num(c.minuten), Num(c.bpm), TextCell(CutTo(c.notizen, MaxNotesLen)))

EntryAsStored(c) ==
    Row(Day(c.datum), TextCell(CutTo(Trimmed(c.uebung), MaxExerciseLen)),
        Num(c.minuten), Num(c.bpm),
        TextCell(CutTo(Trimmed(c.notizen), MaxNotesLen)))

EntryInvariant(row) ==
    /\ row["Minutes"].k = "num"
    /\ InRange(row["Minutes"].n, MinMinutes, MaxMinutes)
    /\ row["BPM"].k = "num"
    /\ InRange(row["BPM"].n, MinBPM, MaxBPM)
    /\ row["Exercise/Song"].k = "str"
    /\ ~IsBlank(row["Exercise/Song"].s)

C3_StoredEntriesInRange ==
    Mutated => \A i \in 1..Len(dataFile.rows) : EntryInvariant(dataFile.rows[i])

(***************************************************************************)
(* C4.  A save whose minutes are outside 1..600 or whose bpm is outside    *)
(* 20..400 is rejected with a validation message and leaves the data file  *)
(* and the backup as they were.                                            *)
(***************************************************************************)
OutOfRange(c) ==
    \/ ~InRange(c.minuten, MinMinutes, MaxMinutes)
    \/ ~InRange(c.bpm, MinBPM, MaxBPM)

C5_BlankExerciseNotStored ==
    (submitted /= <<>> /\ IsBlank(submitted[1].uebung))
        => (message = "warning_no_exercise" /\ FilesUntouched)

\* a whitespace-only name submitted over an existing log and backup
C5_Witness ==
    /\ submitted /= <<>>
    /\ Len(submitted[1].uebung) >= 1
    /\ IsBlank(submitted[1].uebung)
    /\ message = "warning_no_exercise"
    /\ dataFile.kind = "csv" /\ Len(dataFile.rows) >= 1
    /\ backupFile.kind = "csv"
    /\ FilesUntouched

(***************************************************************************)
(* C6.  As claimed: an import is accepted only when the columns of the     *)
(* table are exactly the five required ones; otherwise it is rejected and  *)
(* the data file and the backup are unchanged.                             *)
(***************************************************************************)
Uploaded == UploadOf(uploaded_file[1])

C6_ExactlyFiveColumns ==
    uploaded_file /= <<>> =>
        /\ message = "imported" => Uploaded.cols = required_columns
        /\ message /= "imported" => FilesUntouched

(***************************************************************************)
(* C6, amended.  An import is accepted only when the table has all five    *)
(* required columns (it may have others besides); a table that lacks one,  *)
(* such as BPM, is rejected, and a rejected import leaves the data file    *)
(* and the backup unchanged.                                               *)
(***************************************************************************)
C6_RequiredColumnsPresent ==
    uploaded_file /= <<>> =>
        /\ message = "imported" => required_columns \subseteq Uploaded.cols
        /\ ~(required_columns \subseteq Uploaded.cols)
               => message \in ImportRejections
        /\ message /= "imported" => FilesUntouched

\* the table without BPM, refused over an existing log and backup
C6_Witness ==
    /\ uploaded_file = <<"no_bpm">>
    /\ message = "error_bad_columns"
    /\ dataFile.kind = "csv" /\ Len(dataFile.rows) >= 1
    /\ backupFile.kind = "csv"
    /\ FilesUntouched

(***************************************************************************)
(* C7.  Round trip: for a well-formed CSV with the five columns, within    *)
(* the size and row ceilings, whose entries satisfy the data model (Notes  *)
(* may be empty, or up to 500 characters), the exported data file after    *)
(* the import has the rows and the field values of the uploaded CSV.       *)
(***************************************************************************)
WellFormedRow(row) ==
    /\ row["Date"].k = "date"
    /\ EntryInvariant(row)
    /\ Len(row["Exercise/Song"].s) <= MaxExerciseLen
    /\ row["Notes"].k \in {"nan", "str"}
    /\ Len(row["Notes"].s) <= MaxNotesLen

WellFormed(u) ==
    /\ u.parses /\ u.name_csv
    /\ u.size <= MAX_FILE_SIZE
    /\ Len(u.rows) <= MaxImportRows
    /\ u.cols = required_columns
    /\ \A i \in 1..Len(u.rows) : WellFormedRow(u.rows[i])

\* lines 497-504: the download is the data file as it is
Export(file) == file

C7_ImportExportRoundTrip ==
    (uploaded_file /= <<>> /\ WellFormed(Uploaded)) =>
        /\ message = "imported"
        /\ Export(dataFile).cols = Uploaded.cols
        /\ Export(dataFile).rows = Uploaded.rows

(***************************************************************************)
(* C8.  As claimed: the load keeps exactly the rows in which Minutes, BPM  *)
(* and Date all coerce, in file order, so that no loaded row has a missing *)
(* Minutes, BPM or Date.                                                   *)
(***************************************************************************)
Coerces(row, c) ==
    IF c = "Date" THEN row[c].k = "date" ELSE row[c].k = "num"

Loadable(file) ==
    /\ file.kind = "csv"
    /\ file.rows /= <<>>
    /\ required_columns \subseteq file.cols

\* the rows of the file as read, Minutes, BPM and Date coerced
CoercedRows(file) ==
    LET rows == pd_read_csv(file).rows
    IN  [i \in 1..Len(rows) |-> Coerce(rows[i])]

AllCoerce(row) == \A c \in critical_columns : notna(row[c])

SomeCoerce(row) == \E c \in critical_columns : notna(row[c])

C8_LoadKeepsFullyValidRows ==
    Loadable(dataFile) =>
        /\ FiveOf(load(dataFile).rows)
              = FiveOf(SelectSeq(CoercedRows(dataFile), AllCoerce))
        /\ \A i \in 1..Len(load(dataFile).rows) :
              AllCoerce(load(dataFile).rows[i])

(***************************************************************************)
(* C8, amended.  The load drops exactly the rows in which Minutes, BPM and *)
(* Date all fail to coerce and keeps, in file order, every row in which at *)
(* least one of them coerces; a kept row can carry a missing Minutes, BPM  *)
(* or Date.                                                                *)
(***************************************************************************)
C8_LoadDropsFullyInvalidRows ==
    Loadable(dataFile) =>
        /\ FiveOf(load(dataFile).rows)
              = FiveOf(SelectSeq(CoercedRows(dataFile), SomeCoerce))
        /\ \A i \in 1..Len(dataFile.rows) :
              LET row == dataFile.rows[i]
              IN  (\A c \in critical_columns : ~Coerces(row, c))
                     => \A j \in 1..Len(load(dataFile).rows) :
                           Five(load(dataFile).rows[j]) /= Five(Coerce(row))

\* a file of which the load dropped a row and kept a row without Minutes
C8_Witness ==
    /\ Loadable(dataFile)
    /\ load(dataFile).status = "loaded"
    /\ Len(load(dataFile).rows) < Len(dataFile.rows)
    /\ \E j \in 1..Len(load(dataFile).rows) :
          /\ ~notna(load(dataFile).rows[j]["Minutes"])
          /\ notna(load(dataFile).rows[j]["BPM"])

(***************************************************************************)
(* C9.  For every exercise name of the log, the most recent BPM reported   *)
(* for it is the BPM of the last row in file order that carries the name.  *)
(***************************************************************************)
LastRowOf(file, song) ==
    LET at == {i \in 1..Len(file.rows) : file.rows[i]["Exercise/Song"] = song}
    IN  file.rows[CHOOSE i \in at : \A j \in at : j <= i]

C9_RecentBpmIsLastInFile ==
    Mutated =>
        \A k \in 1..Len(RecentSongs(dataFile)) :
            LET song == RecentSongs(dataFile)[k]
            IN  RecentBPMs(dataFile, song) = {LastRowOf(dataFile, song)["BPM"]}

(***************************************************************************)
(* C10.  The stopwatch makes only these transitions: start only while not  *)
(* running, to running with start_instant = now and elapsed = 0; stop only *)
(* while running, to not running with elapsed = max(0, now -               *)
(* start_instant); reset in every state, to not running with elapsed = 0   *)
(* and start_instant cleared.                                              *)
(***************************************************************************)
StartPressed == \E t \in ClockValues : Start(t)

StopPressed == \E t \in ClockValues : Stop(t)

C10_StopwatchTransitions ==
    /\ [](ENABLED StartPressed <=> ~timer_running)
    /\ [](ENABLED StopPressed <=> timer_running)
    /\ [](ENABLED Reset)
    /\ [][/\ timer_op' = "start" =>
               /\ ~timer_running /\ timer_running'
               /\ timer_start_time' = <<now'>>
               /\ timer_elapsed' = 0
          /\ timer_op' = "stop" =>
               /\ timer_running /\ ~timer_running'
               /\ timer_start_time' = timer_start_time
               /\ \/ timer_elapsed' = now' - timer_start_time[1]
                     /\ now' >= timer_start_time[1]
                  \/ timer_elapsed' = 0 /\ now' < timer_start_time[1]
          /\ timer_op' = "reset" =>
               /\ ~timer_running'
               /\ timer_start_time' = <<>>
               /\ timer_elapsed' = 0
          /\ timer_running' /= timer_running =>
               timer_op' \in {"start", "stop", "reset"}
          /\ timer_op' \in {"start", "stop", "reset", "use", "use_warning"}
         ]_vars

\* a stop 90 seconds after the start, and a stop at a clock reading before
\* the start
C10_Witness ==
    /\ timer_op = "stop"
    /\ ~timer_running
    /\ timer_start_time /= <<>>
    /\ \/ timer_elapsed = 90 /\ now = timer_start_time[1] + 90
       \/ timer_elapsed = 0 /\ now < timer_start_time[1]

(***************************************************************************)
(* C11.  Use on a stopwatch with elapsed > 0 sets the form's default       *)
(* duration to max(1, elapsed / 60 rounded to the nearest minute, a half   *)
(* to the even minute): 90 s gives 2, 150 s gives 2, 20 s gives 1; it      *)
(* leaves running, start_instant and elapsed unchanged.  Use with          *)
(* elapsed = 0 gives the warning and changes nothing.                      *)
(***************************************************************************)
UsePressed == timer_op' \in {"use", "use_warning"}

\* the whole minute nearest to seconds / 60, the even one of two equally near
NearestMinute(seconds) ==
    LET below == seconds \div 60
        Gap(m) == IF 60 * m >= seconds THEN 60 * m - seconds
                  ELSE seconds - 60 * m
    IN  IF Gap(below) < Gap(below + 1) THEN below
        ELSE IF Gap(below + 1) < Gap(below) THEN below + 1
        ELSE IF below % 2 = 0 THEN below ELSE below + 1

AppliedMinutes(seconds) ==
    IF NearestMinute(seconds) < 1 THEN 1 ELSE NearestMinute(seconds)

C11_UseYieldsRoundedMinutes ==
    /\ [][UsePressed =>
            /\ UNCHANGED <<timer_running, timer_start_time, timer_elapsed>>
            /\ timer_elapsed > 0 =>
                 /\ timer_op' = "use"
                 /\ timer_minutes' = <<AppliedMinutes(timer_elapsed)>>
                 /\ default_minutes(timer_minutes')
                       = AppliedMinutes(timer_elapsed)
            /\ timer_elapsed = 0 =>
                 /\ timer_op' = "use_warning"
                 /\ timer_minutes' = timer_minutes
         ]_vars
    /\ [](timer_op = "use" =>
            /\ timer_elapsed = 90 => timer_minutes = <<2>>
            /\ timer_elapsed = 150 => timer_minutes = <<2>>
            /\ timer_elapsed = 20 => timer_minutes = <<1>>)

\* Use after a run of 150 seconds: the half minute went to the even minute
C11_Witness ==
    /\ timer_op = "use"
    /\ ~timer_running
    /\ timer_start_time /= <<>>
    /\ timer_elapsed = 150
    /\ timer_minutes = <<2>>

(***************************************************************************)
(* C12.  Whatever the length of the stopwatch run, the minutes that Use    *)
(* hands to the entry form lie within the form's range 1..600.             *)
(***************************************************************************)
C12_AppliedMinutesWithinFormRange ==
    timer_minutes /= <<>> =>
        InRange(default_minutes(timer_minutes), MinMinutes, MaxMinutes)

(***************************************************************************)
(* C13.  In every state elapsed >= 0, and while the stopwatch is running   *)
(* its start_instant is set and its elapsed is 0; so Use pressed while     *)
(* running gives the warning and leaves the form's default duration as it  *)
(* was.                                                                    *)
(***************************************************************************)
C13_RunningHasNothingToApply ==
    /\ [](timer_elapsed >= 0)
    /\ [](timer_running => timer_start_time /= <<>> /\ timer_elapsed = 0)
    /\ [][(timer_running /\ UsePressed) =>
            /\ timer_op' = "use_warning"
            /\ timer_minutes' = timer_minutes
            /\ default_minutes(timer_minutes') = default_minutes(timer_minutes)
         ]_vars

\* Use pressed during a second run, the minutes of the first run kept
C13_Witness ==
    /\ timer_running
    /\ timer_op = "use_warning"
    /\ timer_start_time /= <<>>
    /\ timer_elapsed = 0
    /\ timer_minutes /= <<>>

====
